---- MODULE Spec2Model ----
(***************************************************************************)
(* Upload progress tracker, display smoother and image-then-video upload   *)
(* chain of the admin dashboard (src/admin/admin.js, lines 453-712).       *)
(*                                                                         *)
(* Number representation.  JavaScript numbers are modelled in fixed point: *)
(*   realPercent        tenths of a percent          (99 %   -> 990)       *)
(*   displayedPercent   thousandths of a percent     (99.5 % -> 99500)     *)
(*   realLoaded         bytes                                              *)
(*   displayedLoaded    hundredths of a byte                               *)
(*   fill.style.width   tenths of a percent          ('40%'  -> 400)       *)
(* Products with the smoothing factor 0.08 are truncated to the grid.      *)
(***************************************************************************)
EXTENDS Integers, Sequences, FiniteSets, TLC

\* ---- bounds of the model ------------------------------------------------
MaxJobs == 1            \* clicks on "save" that pass validation
MaxProgress == 1        \* progress events delivered to one XMLHttpRequest
MaxFrames == 1          \* animation frames that fire after one begin
TrackerProgress == 2    \* the same two bounds under TrackerSpec
TrackerFrames == 3
OverlapJobs == 2        \* clicks on "save" followed under OverlapSpec

\* ---- inputs -------------------------------------------------------------
Kinds == {"image", "video"}
\* Spec follows the whole page with few progress values; TrackerSpec follows
\* one save with the values that exercise the tracker's arithmetic.
NoFile == <<>>                       \* input.files is empty
FilesOf(sizes) == {NoFile} \cup {<<s>> : s \in sizes}
Files == FilesOf({2000000})          \* <<file.size>> of a selected file
Totals == {0, 3}                     \* e.total of a request; 0: not lengthComputable
Loadeds == {2, 3}                    \* e.loaded of a progress event
Elapsed == {1000}                    \* ms between two progress events
TrackerFiles == FilesOf({0, 2000000})
TrackerTotals == {0, 3, 2000000}
TrackerLoadeds == {2, 3, 1000000}
TrackerElapsed == {50, 1000}
\* xhr.responseText: nothing, text that is no JSON, JSON without an error
\* field, JSON with an error message, JSON whose error field is ''
Bodies == {"empty", "text", "json", "json error", "json blank error"}

VARIABLES
    imageInput,             \* #productImage: NoFile or <<file.size>>
    videoInput,             \* #productVideo
    busy,                   \* saveBtn.disabled
    nextJob,                \* number of saveProduct calls that passed validation
    job,                    \* per call: position of saveProduct's promise chain
    xhr,                    \* per call and kind: the XMLHttpRequest and its closure
    holdTimers,             \* pending setTimeout(..., 400) callbacks, in order
    hideTimers,             \* pending setTimeout(..., 1500) callbacks, in order
    uploadState,
    uploadProgressRafId,    \* 0 is null
    rafQueue,               \* ids of the animation frames requested and not cancelled
    frameCount,             \* frames fired since the last begin
    sink,                   \* the progress elements of the page
    doneCalls,              \* per call: invocations of done
    errCalls,               \* per call: invocations of the onError argument
    sent,                   \* per call: xhr.send calls, in order
    notice,                 \* the last notify message
    call                    \* a call of formatBytes or shortFileName on its own

vars == <<imageInput, videoInput, busy, nextJob, job, xhr, holdTimers, hideTimers,
          uploadState, uploadProgressRafId, rafQueue, frameCount, sink,
          doneCalls, errCalls, sent, notice, call>>

Jobs == 1..(IF OverlapJobs > MaxJobs THEN OverlapJobs ELSE MaxJobs)

\* ---- arithmetic ---------------------------------------------------------
\* Math.round(n / d) for n >= 0, d > 0: nearest integer, halves up
Round(n, d) == (n \div d) + (IF 2 * (n % d) >= d THEN 1 ELSE 0)

Min(a, b) == IF a <= b THEN a ELSE b

\* ---- PresentationFormatter ---------------------------------------------
k == 1024

Pow(b, e) == IF e = 0 THEN 1 ELSE IF e = 1 THEN b ELSE IF e = 2 THEN b * b ELSE b * b * b

\* Variant: the comparisons include the power of 1024 itself, so 1024 bytes
\* are still printed in the bytes tier.
UnitIndexInclusive(bytes) ==
    IF bytes <= k THEN 0 ELSE IF bytes <= k * k THEN 1 ELSE IF bytes <= k * k * k THEN 2 ELSE 3

\* Math.floor(Math.log(bytes) / Math.log(k)) for an integer bytes >= 1
UnitIndex(bytes) ==
    IF bytes < k THEN 0 ELSE IF bytes < k * k THEN 1 ELSE IF bytes < k * k * k THEN 2 ELSE 3

\* The string is modelled as <<digits before the point, digit after it or -1
\* when there is none, index into sizes>>.
\* v.toFixed(1) is the multiple of 0.1 nearest to v = bytes / unit, the
\* larger one of two; v is exact in a double (unit is a power of two).  The
\* result is in tenths; the remainder is scaled in two stages so that no
\* product leaves the 32-bit integers.
toFixed1(bytes, unit) ==
    LET r == bytes % unit
    IN  (bytes \div unit) * 10
          + (IF unit <= k THEN Round(r * 10, unit)
             ELSE (10 * (r \div k) + (10 * (r % k)) \div k + unit \div (2 * k))
                      \div (unit \div k))

formatBytes(bytes) ==
    IF bytes = 0 THEN <<0, -1, 0>>
    ELSE LET i == UnitIndex(bytes)
             tenths == toFixed1(bytes, Pow(k, i))
         IN  IF i = 0 THEN <<bytes, -1, 0>>
             ELSE IF tenths % 10 = 0 THEN <<tenths \div 10, -1, i>>    \* .replace(/\.0$/, '')
             ELSE <<tenths \div 10, tenths % 10, i>>

Dash == <<>>     \* the speed string shown while no speed is known

\* A file name is the sequence of its characters.
Ellipsis == "..."        \* the one character U+2026

\* name.slice(from, to) for 0 <= from, 0 <= to
Slice(name, from, to) == SubSeq(name, from + 1, Min(to, Len(name)))

\* name.lastIndexOf(c), counted from 0; -1 when c does not occur
LastIndexOf(name, c) ==
    LET at == {i \in 1..Len(name) : name[i] = c}
    IN  IF at = {} THEN -1 ELSE (CHOOSE i \in at : \A o \in at : o <= i) - 1

\* Variant: the prefix kept before the extension is one character too long.
shortFileNameKeepsOneMore(name, maxLen) ==
    LET m == IF maxLen = 0 THEN 42 ELSE maxLen
        lastDot == LastIndexOf(name, ".")
        hasExt == lastDot > 0 /\ lastDot > Len(name) - 6
        ext == IF hasExt THEN Slice(name, lastDot, Len(name)) ELSE <<>>
        stem == IF hasExt THEN Slice(name, 0, lastDot) ELSE name
        keep == m - Len(ext)
    IN  IF name = <<>> \/ Len(name) <= m THEN name
        ELSE IF keep < 8 THEN Slice(stem, 0, m - 1) \o <<Ellipsis>>
        ELSE Slice(stem, 0, keep) \o <<Ellipsis>> \o ext

\* maxLen = 0 stands for an argument that is omitted (maxLen || 42)
shortFileName(name, maxLen) ==
    LET m == IF maxLen = 0 THEN 42 ELSE maxLen
        lastDot == LastIndexOf(name, ".")
        hasExt == lastDot > 0 /\ lastDot > Len(name) - 6
        ext == IF hasExt THEN Slice(name, lastDot, Len(name)) ELSE <<>>
        stem == IF hasExt THEN Slice(name, 0, lastDot) ELSE name     \* name, from line 469 on
        keep == m - Len(ext) - 1
    IN  IF name = <<>> \/ Len(name) <= m THEN name
        ELSE IF keep < 8 THEN Slice(stem, 0, m - 1) \o <<Ellipsis>>
        ELSE Slice(stem, 0, keep) \o <<Ellipsis>> \o ext

\* ---- the page as one value ---------------------------------------------
\* The handlers below are sequential code: each is a function from the page
\* before it runs to the page after it has returned.
World == [imageInput |-> imageInput, videoInput |-> videoInput, busy |-> busy,
          nextJob |-> nextJob, job |-> job, xhr |-> xhr,
          holdTimers |-> holdTimers, hideTimers |-> hideTimers,
          uploadState |-> uploadState, uploadProgressRafId |-> uploadProgressRafId,
          rafQueue |-> rafQueue, frameCount |-> frameCount, sink |-> sink,
          notice |-> notice,
          doneCalls |-> doneCalls, errCalls |-> errCalls, sent |-> sent]

Becomes(w) ==
    /\ imageInput' = w.imageInput
    /\ videoInput' = w.videoInput
    /\ busy' = w.busy
    /\ nextJob' = w.nextJob
    /\ job' = w.job
    /\ xhr' = w.xhr
    /\ holdTimers' = w.holdTimers
    /\ hideTimers' = w.hideTimers
    /\ uploadState' = w.uploadState
    /\ uploadProgressRafId' = w.uploadProgressRafId
    /\ rafQueue' = w.rafQueue
    /\ frameCount' = w.frameCount
    /\ sink' = w.sink
    /\ notice' = w.notice
    /\ doneCalls' = w.doneCalls
    /\ errCalls' = w.errCalls
    /\ sent' = w.sent
    /\ call' = call

NoXhr == [st |-> "none", fileSize |-> 0, total |-> 0, lastLoaded |-> 0,
          nprog |-> 0, outcome |-> "none"]

NoJob == [st |-> "idle", hasId |-> FALSE, image |-> FALSE, video |-> FALSE]

\* the page after the script has loaded, the product form apart
InitUpload ==
    /\ xhr = [j \in Jobs |-> [kd \in Kinds |-> NoXhr]]
    /\ holdTimers = <<>>
    /\ hideTimers = <<>>
    /\ uploadState = [active |-> FALSE, realLoaded |-> 0, realTotal |-> 0,
                      realPercent |-> 0, realSpeedStr |-> Dash,
                      displayedLoaded |-> 0, displayedPercent |-> 0,
                      label |-> "", total |-> 0, indeterminate |-> FALSE]
    /\ uploadProgressRafId = 0
    /\ rafQueue = {}
    /\ frameCount = 0
    /\ sink = [visible |-> FALSE, indeterminate |-> FALSE, width |-> 0, done |-> FALSE]
    /\ notice = "none"
    /\ doneCalls = [j \in Jobs |-> 0]
    /\ errCalls = [j \in Jobs |-> 0]
    /\ sent = [j \in Jobs |-> <<>>]

\* no helper is being called on its own
NoCall == [fn |-> "none", arg |-> <<>>, returned |-> FALSE, ret |-> <<>>]

\* the page after the script has loaded
InitPage ==
    /\ imageInput = NoFile
    /\ videoInput = NoFile
    /\ busy = FALSE
    /\ nextJob = 0
    /\ job = [j \in Jobs |-> NoJob]
    /\ InitUpload

Init == InitPage /\ call = NoCall

\* ---- presentation sink --------------------------------------------------
\* percent is <<>> when the argument is omitted, <<p>> otherwise
showUploadProgress(w, show, percent) ==
    [w EXCEPT !.sink = [visible |-> show,
                        indeterminate |-> (percent = <<>>),
                        width |-> IF percent = <<>> THEN 400 ELSE w.sink.width,
                        done |-> (percent = <<100>>)]]

notify(w, message) == [w EXCEPT !.notice = message]

\* ---- DisplaySmoother ----------------------------------------------------
requestAnimationFrame(w) ==
    LET id == CHOOSE i \in 1..(Cardinality(w.rafQueue) + 1) : i \notin w.rafQueue
    IN  [w EXCEPT !.rafQueue = @ \cup {id}, !.uploadProgressRafId = id]

\* if (uploadProgressRafId != null) cancelAnimationFrame(uploadProgressRafId)
cancelAnimationFrame(w) ==
    IF w.uploadProgressRafId # 0
    THEN [w EXCEPT !.rafQueue = @ \ {w.uploadProgressRafId}]
    ELSE w

\* Variant: the difference is taken the wrong way round, so a step moves the
\* displayed value away from the raw one.
stepBackward == 0 - 8

\* Variant: a factor above 1, so a step carries the displayed value past the
\* raw one.
stepOvershoot == 100 + 8

step == 8      \* 0.08, in hundredths

\* Variant: the width is Math.round(displayedPercent * 10), the division by
\* 10 and the cap of 99.9 left out.
animateUploadProgressUnscaled(w) ==
    LET s == w.uploadState
    IN  IF ~s.active THEN [w EXCEPT !.uploadProgressRafId = 0]
        ELSE IF s.indeterminate THEN requestAnimationFrame(w)
        ELSE
          LET dl1 == s.displayedLoaded
                       + ((s.realLoaded * 100 - s.displayedLoaded) * step) \div 100
              dp1 == s.displayedPercent
                       + ((s.realPercent * 100 - s.displayedPercent) * step) \div 100
              dp2 == IF dp1 > 99500 THEN s.realPercent * 100 ELSE dp1
              dl2 == IF dl1 > (s.realTotal - 100) * 100 THEN s.realLoaded * 100 ELSE dl1
              pctShow == Round(dp2, 100) * 10
              w1 == [w EXCEPT !.uploadState.displayedLoaded = dl2,
                              !.uploadState.displayedPercent = dp2,
                              !.sink.width = pctShow]
          IN  IF dp2 >= 99500 /\ s.realPercent >= 995
              THEN [w1 EXCEPT !.uploadProgressRafId = 0]
              ELSE requestAnimationFrame(w1)

\* the body of animateUploadProgress, run when a requested frame fires
animateUploadProgress(w) ==
    LET s == w.uploadState
    IN  IF ~s.active THEN [w EXCEPT !.uploadProgressRafId = 0]
        ELSE IF s.indeterminate THEN requestAnimationFrame(w)
        ELSE
          LET dl1 == s.displayedLoaded
                       + ((s.realLoaded * 100 - s.displayedLoaded) * step) \div 100
              dp1 == s.displayedPercent
                       + ((s.realPercent * 100 - s.displayedPercent) * step) \div 100
              dp2 == IF dp1 > 99500 THEN s.realPercent * 100 ELSE dp1
              dl2 == IF dl1 > (s.realTotal - 100) * 100 THEN s.realLoaded * 100 ELSE dl1
              pctShow == Min(999, Round(dp2, 100))
              w1 == [w EXCEPT !.uploadState.displayedLoaded = dl2,
                              !.uploadState.displayedPercent = dp2,
                              !.sink.width = pctShow]
          IN  IF dp2 >= 99500 /\ s.realPercent >= 995
              THEN [w1 EXCEPT !.uploadProgressRafId = 0]
              ELSE requestAnimationFrame(w1)

\* ---- saveProduct's callbacks -------------------------------------------
setBusy(w, b) == [w EXCEPT !.busy = b]

\* setBusy.bind(null, false), the onError argument of uploadProductFile
onError(w, j) == [setBusy(w, FALSE) EXCEPT !.errCalls[j] = @ + 1]

done(w, j) ==
    LET w1 == showUploadProgress(w, FALSE, <<>>)
        w2 == notify(w1, "saved")
        w3 == [w2 EXCEPT !.imageInput = NoFile, !.videoInput = NoFile]
        w4 == setBusy(w3, FALSE)
    IN  [w4 EXCEPT !.doneCalls[j] = @ + 1]

\* ---- uploadProductFile up to xhr.send -----------------------------------
\* Variant: begin resets the raw fields only and keeps what the display
\* showed for the previous transfer.
uploadProductFileKeepsDisplayed(w, j, kd, file) ==
    LET fileSize == file[1]
        w1 == [w EXCEPT !.uploadState =
                            [active |-> TRUE, realLoaded |-> 0, realTotal |-> fileSize,
                             realPercent |-> 0, realSpeedStr |-> Dash,
                             displayedLoaded |-> w.uploadState.displayedLoaded,
                             displayedPercent |-> w.uploadState.displayedPercent,
                             label |-> kd, total |-> fileSize,
                             indeterminate |-> (fileSize = 0)]]
        w2 == cancelAnimationFrame(w1)
        w3 == showUploadProgress(w2, TRUE, <<0>>)
        w4 == requestAnimationFrame(w3)
    IN  [w4 EXCEPT !.frameCount = 0,
                   !.xhr[j][kd] = [st |-> "inflight", fileSize |-> fileSize, total |-> 0,
                                   lastLoaded |-> 0, nprog |-> 0, outcome |-> "none"],
                   !.sent[j] = Append(@, kd)]

uploadProductFile(w, j, kd, file) ==
    LET fileSize == file[1]
        w1 == [w EXCEPT !.sink.width = 0,
                        !.uploadState =
                            [active |-> TRUE, realLoaded |-> 0, realTotal |-> fileSize,
                             realPercent |-> 0, realSpeedStr |-> Dash,
                             displayedLoaded |-> 0, displayedPercent |-> 0,
                             label |-> kd, total |-> fileSize,
                             indeterminate |-> (fileSize = 0)]]
        w2 == cancelAnimationFrame(w1)
        w3 == showUploadProgress(w2, TRUE, <<0>>)
        w4 == requestAnimationFrame(w3)
    IN  [w4 EXCEPT !.frameCount = 0,
                   !.xhr[j][kd] = [st |-> "inflight", fileSize |-> fileSize, total |-> 0,
                                   lastLoaded |-> 0, nprog |-> 0, outcome |-> "none"],
                   !.sent[j] = Append(@, kd)]

\* the cb argument: for the image the continuation of lines 697-700, for the
\* video done itself
cb(w, j, kd) ==
    IF kd = "image"
    THEN IF w.videoInput # NoFile
         THEN uploadProductFile(w, j, "video", w.videoInput)
         ELSE done(w, j)
    ELSE done(w, j)

\* ---- the user -----------------------------------------------------------
\* The user picks or clears the files of the form while the save button is
\* enabled.
ChooseFiles(img, vid) ==
    /\ ~busy
    /\ <<img, vid>> # <<imageInput, videoInput>>
    /\ Becomes([World EXCEPT !.imageInput = img, !.videoInput = vid])

\* ---- saveProduct --------------------------------------------------------
\* The click handler up to the api call.  valid: the title is not empty and
\* the price is a number >= 0; hasId: #productId holds an id.
saveProduct(w, valid, hasId) ==
    IF ~valid THEN notify(w, "fill in")
    ELSE LET j == w.nextJob + 1
         IN  [setBusy(w, TRUE) EXCEPT !.nextJob = j,
                                      !.job[j] = [NoJob EXCEPT !.st = "saving",
                                                               !.hasId = hasId]]

SaveClick(valid, hasId) ==
    /\ ~busy                       \* a disabled button delivers no click
    /\ Becomes(saveProduct(World, valid, hasId))

\* Variant: both transfers are started at once instead of chaining the video
\* behind the image's cb.
saveThenParallel(w, j, savedId) ==
    IF ~(savedId \/ w.job[j].hasId)
    THEN [setBusy(showUploadProgress(w, FALSE, <<>>), FALSE)
              EXCEPT !.job[j] = [NoJob EXCEPT !.st = "noid"]]
    ELSE LET w1 == [w EXCEPT !.job[j] = [NoJob EXCEPT !.st = "started",
                                                      !.image = (w.imageInput # NoFile),
                                                      !.video = (w.videoInput # NoFile)]]
             w2 == IF w1.imageInput # NoFile
                   THEN uploadProductFile(w1, j, "image", w1.imageInput) ELSE w1
         IN  IF w1.videoInput # NoFile
             THEN uploadProductFile(w2, j, "video", w1.videoInput)
             ELSE IF w1.imageInput # NoFile THEN w2 ELSE done(w1, j)

\* Variant: with no file selected the callback throws before it reaches done
\* and the promise's catch runs.
saveThenNoFilesThrows(w, j, savedId) ==
    IF ~(savedId \/ w.job[j].hasId)
    THEN [setBusy(showUploadProgress(w, FALSE, <<>>), FALSE)
              EXCEPT !.job[j] = [NoJob EXCEPT !.st = "noid"]]
    ELSE LET w1 == [w EXCEPT !.job[j] = [NoJob EXCEPT !.st = "started",
                                                      !.image = (w.imageInput # NoFile),
                                                      !.video = (w.videoInput # NoFile)]]
         IN  IF w1.imageInput # NoFile
             THEN uploadProductFile(w1, j, "image", w1.imageInput)
             ELSE IF w1.videoInput # NoFile
             THEN uploadProductFile(w1, j, "video", w1.videoInput)
             ELSE setBusy(notify(w1, "error"), FALSE)

\* the then callback of the api call: saved.id is present or not
saveThen(w, j, savedId) ==
    IF ~(savedId \/ w.job[j].hasId)
    THEN LET w1 == showUploadProgress(w, FALSE, <<>>)
             w2 == notify(w1, "saved without id")
             w3 == setBusy(w2, FALSE)
         IN  [w3 EXCEPT !.job[j] = [NoJob EXCEPT !.st = "noid"]]
    ELSE LET w1 == [w EXCEPT !.job[j] = [NoJob EXCEPT !.st = "started",
                                                      !.image = (w.imageInput # NoFile),
                                                      !.video = (w.videoInput # NoFile)]]
         IN  IF w1.imageInput # NoFile
             THEN uploadProductFile(w1, j, "image", w1.imageInput)
             ELSE IF w1.videoInput # NoFile
             THEN uploadProductFile(w1, j, "video", w1.videoInput)
             ELSE done(w1, j)

\* Variant: the catch callback reports the error and leaves the button
\* disabled.
saveCatchStaysBusy(w, j) ==
    [notify(w, "error") EXCEPT !.job[j] = [NoJob EXCEPT !.st = "failed"]]

\* the catch callback of the api call
saveCatch(w, j) ==
    [setBusy(notify(w, "error"), FALSE) EXCEPT !.job[j] = [NoJob EXCEPT !.st = "failed"]]

ApiResolve(j, savedId) ==
    /\ job[j].st = "saving"
    /\ Becomes(saveThen(World, j, savedId))

ApiReject(j) ==
    /\ job[j].st = "saving"
    /\ Becomes(saveCatch(World, j))

\* ---- the transport's callbacks ------------------------------------------
\* Variant: Math.floor in place of Math.round.
rawPercentFloor(loaded, total) == Min(990, (loaded * 1000) \div total)

\* Variant: the cap of 99 is missing.
rawPercentUncapped(loaded, total) == Round(loaded * 1000, total)

\* realPercent after a progress event with a known total, in tenths
rawPercent(loaded, total) == Min(990, Round(loaded * 1000, total))

\* the speed string of a progress event; elapsed in ms
speedStr(loaded, lastLoaded, elapsed) ==
    IF elapsed > 50 /\ loaded > lastLoaded
    THEN formatBytes(Round((loaded - lastLoaded) * 1000, elapsed))
    ELSE Dash

\* Variant: the listener also moves the displayed values onto the raw ones
\* instead of leaving that to animateUploadProgress.
onProgressJumps(w, j, kd, loaded, total, elapsed) ==
    LET x == w.xhr[j][kd]
        str == speedStr(loaded, x.lastLoaded, elapsed)
        w1 == [w EXCEPT !.xhr[j][kd].lastLoaded = loaded,
                        !.xhr[j][kd].total = total,
                        !.xhr[j][kd].nprog = @ + 1,
                        !.uploadState.displayedLoaded = loaded * 100]
    IN  IF total > 0
        THEN [w1 EXCEPT !.uploadState.indeterminate = FALSE,
                        !.uploadState.realLoaded = loaded,
                        !.uploadState.realTotal = total,
                        !.uploadState.realPercent = rawPercent(loaded, total),
                        !.uploadState.displayedPercent = rawPercent(loaded, total) * 100,
                        !.uploadState.realSpeedStr = str]
        ELSE [w1 EXCEPT !.uploadState.realLoaded = loaded,
                        !.uploadState.realSpeedStr = str]

\* the progress listener of xhr.upload; total = 0 stands for an event that
\* is not lengthComputable or reports total 0
onProgress(w, j, kd, loaded, total, elapsed) ==
    LET x == w.xhr[j][kd]
        str == speedStr(loaded, x.lastLoaded, elapsed)
        w1 == [w EXCEPT !.xhr[j][kd].lastLoaded = loaded,
                        !.xhr[j][kd].total = total,
                        !.xhr[j][kd].nprog = @ + 1]
    IN  IF total > 0
        THEN [w1 EXCEPT !.uploadState.indeterminate = FALSE,
                        !.uploadState.realLoaded = loaded,
                        !.uploadState.realTotal = total,
                        !.uploadState.realPercent = rawPercent(loaded, total),
                        !.uploadState.realSpeedStr = str]
        ELSE [w1 EXCEPT !.uploadState.realLoaded = loaded,
                        !.uploadState.realSpeedStr = str]

Progress(j, kd, loaded, total, elapsed) ==
    /\ xhr[j][kd].st = "inflight"
    /\ loaded >= xhr[j][kd].lastLoaded          \* the browser reports bytes sent so far
    /\ total > 0 => loaded <= total
    /\ xhr[j][kd].nprog > 0 => total = xhr[j][kd].total
    /\ Becomes(onProgress(World, j, kd, loaded, total, elapsed))

Closed(outcome) == [NoXhr EXCEPT !.st = "closed", !.outcome = outcome]

\* Variant: xhr.onload clears uploadProgressRafId without cancelling the
\* frame it names.
markCompleteKeepsFrame(w, j, kd) ==
    LET fileSize == w.xhr[j][kd].fileSize
        w1 == [w EXCEPT !.uploadState.active = FALSE,
                        !.uploadProgressRafId = 0,
                        !.uploadState.realPercent = 1000,
                        !.uploadState.realLoaded = fileSize,
                        !.uploadState.displayedPercent = 100000,
                        !.uploadState.displayedLoaded = fileSize * 100,
                        !.sink.width = 1000]
    IN  showUploadProgress(w1, TRUE, <<100>>)

\* lines 601-610 of xhr.onload, run for every status
markComplete(w, j, kd) ==
    LET fileSize == w.xhr[j][kd].fileSize
        w1 == [cancelAnimationFrame(w) EXCEPT
                   !.uploadState.active = FALSE,
                   !.uploadProgressRafId = 0,
                   !.uploadState.realPercent = 1000,
                   !.uploadState.realLoaded = fileSize,
                   !.uploadState.displayedPercent = 100000,
                   !.uploadState.displayedLoaded = fileSize * 100,
                   !.sink.width = 1000]
    IN  showUploadProgress(w1, TRUE, <<100>>)

\* JSON.parse accepts the body
parses(body) == body \in {"json", "json error", "json blank error"}

\* Variant: the body is never parsed; the message is the body's text.
errorMessageUnparsed(body) ==
    IF body = "empty" THEN "upload error: status" ELSE "upload error: body"

\* the message of lines 627-629: 'Ошибка загрузки ...: ' followed by j.error,
\* by the body's text, or by 'Ошибка ' + xhr.status
errorMessage(body) ==
    LET msg == IF body = "empty" THEN "status" ELSE "body"     \* responseText || ...
    IN  IF body = "json error"                                 \* if (j.error)
        THEN "upload error: error field"
        ELSE "upload error: " \o msg

\* xhr.onload; ok: 200 <= status < 300; body: xhr.responseText
onload(w, j, kd, ok, body) ==
    LET w1 == markComplete(w, j, kd)
    IN  IF ok
        THEN [w1 EXCEPT !.holdTimers = Append(@, <<j, kd>>),
                        !.xhr[j][kd].st = "hold",
                        !.xhr[j][kd].outcome = IF parses(body) THEN "ok" ELSE "malformed"]
        ELSE LET w2 == notify(w1, errorMessage(body))
                 w3 == showUploadProgress(w2, FALSE, <<>>)
                 w4 == onError(w3, j)
             IN  [w4 EXCEPT !.xhr[j][kd] = Closed("status")]

Load(j, kd, ok, body) ==
    /\ xhr[j][kd].st = "inflight"
    /\ Becomes(onload(World, j, kd, ok, body))

\* Variant: the error handler does not call onError.
onerrorSilent(w, j, kd) ==
    LET w1 == [cancelAnimationFrame(w) EXCEPT !.uploadState.active = FALSE,
                                              !.uploadProgressRafId = 0]
        w2 == showUploadProgress(notify(w1, "file error"), FALSE, <<>>)
    IN  [w2 EXCEPT !.xhr[j][kd] = Closed("network")]

\* Variant: the error handler forgets the frame it has scheduled: it clears
\* uploadProgressRafId without calling cancelAnimationFrame.
onerrorKeepsFrame(w, j, kd) ==
    LET w1 == [w EXCEPT !.uploadState.active = FALSE,
                        !.uploadProgressRafId = 0]
        w2 == notify(w1, "file error")
        w3 == showUploadProgress(w2, FALSE, <<>>)
        w4 == onError(w3, j)
    IN  [w4 EXCEPT !.xhr[j][kd] = Closed("network")]

\* xhr.onerror
onerror(w, j, kd) ==
    LET w1 == [cancelAnimationFrame(w) EXCEPT !.uploadState.active = FALSE,
                                              !.uploadProgressRafId = 0]
        w2 == notify(w1, "file error")
        w3 == showUploadProgress(w2, FALSE, <<>>)
        w4 == onError(w3, j)
    IN  [w4 EXCEPT !.xhr[j][kd] = Closed("network")]

NetError(j, kd) ==
    /\ xhr[j][kd].st = "inflight"
    /\ Becomes(onerror(World, j, kd))

\* the catch block of the 400 ms callback
onloadCatch(w, j, kd) ==
    LET w1 == notify(w, "bad response")
        w2 == showUploadProgress(w1, FALSE, <<>>)
        w3 == onError(w2, j)
    IN  cb(w3, j, kd)

\* Variant: a throw after cb(data) inside the try block, so that the catch
\* block runs after the continuation has already been called.
onloadTimeoutThrowsAfterCb(w, j, kd) ==
    LET w0 == [w EXCEPT !.xhr[j][kd] = Closed(w.xhr[j][kd].outcome)]
    IN  IF w.xhr[j][kd].outcome = "ok"
        THEN onloadCatch(cb(notify(w0, "uploaded"), j, kd), j, kd)
        ELSE onloadCatch(w0, j, kd)

\* the callback of setTimeout(..., 400) in xhr.onload
onloadTimeout(w, j, kd) ==
    LET w0 == [w EXCEPT !.xhr[j][kd] = Closed(w.xhr[j][kd].outcome)]
    IN  IF w.xhr[j][kd].outcome = "ok"
        THEN LET w1 == notify(w0, "uploaded")
                 w2 == cb(w1, j, kd)
             IN  [w2 EXCEPT !.hideTimers = Append(@, <<j, kd>>)]
        ELSE onloadCatch(w0, j, kd)

\* Timers of equal delay fire in the order they were set.
HoldTimer ==
    /\ holdTimers # <<>>
    /\ LET j == Head(holdTimers)[1]
           kd == Head(holdTimers)[2]
       IN  Becomes(onloadTimeout([World EXCEPT !.holdTimers = Tail(@)], j, kd))

\* the callback of setTimeout(..., 1500)
HideTimer ==
    /\ hideTimers # <<>>
    /\ Becomes(showUploadProgress([World EXCEPT !.hideTimers = Tail(@)], FALSE, <<>>))

\* a requested animation frame fires
Frame(id) ==
    /\ id \in rafQueue
    /\ Becomes(animateUploadProgress([World EXCEPT !.rafQueue = @ \ {id},
                                                   !.frameCount = @ + 1]))

\* ---- the page -----------------------------------------------------------
PageNext(maxJobs) ==
    \/ \E img \in Files, vid \in Files : nextJob < maxJobs /\ ChooseFiles(img, vid)
    \/ \E valid \in BOOLEAN, hasId \in BOOLEAN : nextJob < maxJobs /\ SaveClick(valid, hasId)
    \/ \E j \in Jobs, savedId \in BOOLEAN : ApiResolve(j, savedId)
    \/ \E j \in Jobs : ApiReject(j)
    \/ \E j \in Jobs, kd \in Kinds, loaded \in Loadeds, total \in Totals, elapsed \in Elapsed :
           xhr[j][kd].nprog < MaxProgress /\ Progress(j, kd, loaded, total, elapsed)
    \/ \E j \in Jobs, kd \in Kinds, ok \in BOOLEAN, body \in Bodies : Load(j, kd, ok, body)
    \/ \E j \in Jobs, kd \in Kinds : NetError(j, kd)
    \/ HoldTimer
    \/ HideTimer
    \/ \E id \in rafQueue : frameCount < MaxFrames /\ Frame(id)

Next == PageNext(MaxJobs)

Spec == Init /\ [][Next]_vars

\* ---- the page with a second save --------------------------------------
\* The page as under Spec, followed through one save more, so that a
\* transfer can begin while a transfer of the save before is in flight.
OverlapNext == PageNext(OverlapJobs)

OverlapSpec == Init /\ [][OverlapNext]_vars

\* ---- one save, followed through its transfers --------------------------
\* The user has picked the files and clicked save; the api call is pending.
AfterClick(files) ==
    \E img \in files, vid \in files, hasId \in BOOLEAN :
        /\ InitUpload
        /\ call = NoCall
        /\ imageInput = img
        /\ videoInput = vid
        /\ busy = TRUE
        /\ nextJob = 1
        /\ job = [j \in Jobs |-> IF j = 1 THEN [NoJob EXCEPT !.st = "saving", !.hasId = hasId]
                                 ELSE NoJob]

OneSaveNext(loadeds, totals, elapseds, maxProgress, maxFrames) ==
    \/ \E savedId \in BOOLEAN : ApiResolve(1, savedId)
    \/ \E kd \in Kinds, loaded \in loadeds, total \in totals, elapsed \in elapseds :
           xhr[1][kd].nprog < maxProgress /\ Progress(1, kd, loaded, total, elapsed)
    \/ \E kd \in Kinds, ok \in BOOLEAN, body \in Bodies : Load(1, kd, ok, body)
    \/ \E kd \in Kinds : NetError(1, kd)
    \/ HoldTimer
    \/ HideTimer
    \/ \E id \in rafQueue : frameCount < maxFrames /\ Frame(id)

TrackerInit == AfterClick(TrackerFiles)

TrackerNext ==
    OneSaveNext(TrackerLoadeds, TrackerTotals, TrackerElapsed, TrackerProgress, TrackerFrames)

TrackerSpec == TrackerInit /\ [][TrackerNext]_vars

\* ---- scheduling assumed by the liveness claims -------------------------
\* Every request sent ends with a load or an error event, and every timer
\* set fires.  Each of these steps stays enabled until it is taken, so weak
\* fairness of their disjunction is all the claims need.
Deliver(j, kd) ==
    \/ \E ok \in BOOLEAN, body \in Bodies : Load(j, kd, ok, body)
    \/ NetError(j, kd)

Settle ==
    \/ \E j \in Jobs, kd \in Kinds : Deliver(j, kd)
    \/ HoldTimer
    \/ HideTimer

FairInit == AfterClick(Files)

FairNext == OneSaveNext(Loadeds, Totals, Elapsed, MaxProgress, MaxFrames)

FairSpec == FairInit /\ [][FairNext]_vars /\ WF_vars(Settle)

\* ---- the helpers called on their own -----------------------------------
MaxNameLen == 16        \* the longest name tried, the two long ones apart

\* byte counts around the borders of the four tiers and around the borders
\* between two printed tenths
ByteCounts ==
    (0..9) \cup (1019..1030) \cup (1070..1080) \cup (1275..1285) \cup (1530..1540)
      \cup (1048570..1048580) \cup (1100700..1100710) \cup (1073741820..1073741830)
      \cup {1127428915, 1127428916, 1181116006}

NameChar(i) == <<"a", "b", "c", "d", "e", "f", "g", "h">>[((i - 1) % 8) + 1]

\* the name of n characters with dots at the given positions
NameOf(n, dots) == [i \in 1..n |-> IF i \in dots THEN "." ELSE NameChar(i)]

\* no dot, one or two; at the front or within the last seven characters
DotSets(n) ==
    {d \in SUBSET ((1..n) \cap ({1} \cup ((n - 6)..n))) : Cardinality(d) <= 2}

NameLens == (0..MaxNameLen) \cup {43, 64}

Names == UNION {{NameOf(n, d) : d \in DotSets(n)} : n \in NameLens}

MaxLens == (0..14) \cup {42}       \* 0: the argument is omitted

Called(fn, arg) == [fn |-> fn, arg |-> arg, returned |-> FALSE, ret |-> <<>>]

HelperInit ==
    /\ InitPage
    /\ call \in {Called("formatBytes", <<n>>) : n \in ByteCounts}
                \cup {Called("shortFileName", <<name, m>>) : name \in Names, m \in MaxLens}

formatBytesReturns ==
    /\ call.fn = "formatBytes"
    /\ ~call.returned
    /\ call' = [call EXCEPT !.returned = TRUE, !.ret = formatBytes(call.arg[1])]
    /\ UNCHANGED <<imageInput, videoInput, busy, nextJob, job, xhr, holdTimers,
                   hideTimers, uploadState, uploadProgressRafId, rafQueue, frameCount,
                   sink, doneCalls, errCalls, sent, notice>>

shortFileNameReturns ==
    /\ call.fn = "shortFileName"
    /\ ~call.returned
    /\ call' = [call EXCEPT !.returned = TRUE,
                            !.ret = shortFileName(call.arg[1], call.arg[2])]
    /\ UNCHANGED <<imageInput, videoInput, busy, nextJob, job, xhr, holdTimers,
                   hideTimers, uploadState, uploadProgressRafId, rafQueue, frameCount,
                   sink, doneCalls, errCalls, sent, notice>>

HelperNext == formatBytesReturns \/ shortFileNameReturns

HelperSpec == HelperInit /\ [][HelperNext]_vars

\* ---- vocabulary of the claims ------------------------------------------
Started(j) == job[j].st = "started"
InFlight(j, kd) == xhr[j][kd].st = "inflight"
\* the transfer has run to its end with the given outcome
Ended(j, kd, outcome) == xhr[j][kd].st = "closed" /\ xhr[j][kd].outcome = outcome
TransportFailed(j, kd) == xhr[j][kd].outcome \in {"status", "network"}
Failed(j) == \E kd \in Kinds : xhr[j][kd].outcome \in {"malformed", "status", "network"}

\* C1: for every upload job, done and the onError argument are never both
\* invoked and neither is invoked twice, whatever the outcome of its transfers.
C1_OneTerminalCallback ==
    \A j \in Jobs : doneCalls[j] + errCalls[j] <= 1

\* C2: the video transfer is dispatched only if the image was absent or its
\* transfer succeeded; after a 2xx image response that does not parse, the
\* video is never dispatched and done is never invoked.
C2_VideoOnlyAfterImageSuccess ==
    \A j \in Jobs :
        /\ xhr[j]["video"].st # "none" => (~job[j].image \/ Ended(j, "image", "ok"))
        /\ xhr[j]["image"].outcome = "malformed" =>
               (xhr[j]["video"].st = "none" /\ doneCalls[j] = 0)

\* C3: when a transfer fails at the transport (error event, or load with a
\* status outside 200-299), the job's onError has been invoked exactly once,
\* done never, and no further transfer of the job is dispatched.
C3_TransportFailureEndsJob ==
    \A j \in Jobs, kd \in Kinds :
        TransportFailed(j, kd) =>
            /\ errCalls[j] = 1
            /\ doneCalls[j] = 0
            /\ kd = "image" => xhr[j]["video"].st = "none"

\* C4: within one job the two transfers never overlap: the video request is
\* sent only after the image request has delivered its load event.
C4_OneTransferInFlight ==
    \A j \in Jobs :
        /\ ~(InFlight(j, "image") /\ InFlight(j, "video"))
        /\ (job[j].image /\ xhr[j]["video"].st # "none") =>
               (Ended(j, "image", "ok") \/ Ended(j, "image", "malformed"))

C4_Witness ==
    \E j \in Jobs : Ended(j, "image", "ok") /\ InFlight(j, "video")

\* C5: a job with neither file invokes done without sending any request and
\* without beginning the tracker: the step that starts it leaves uploadState
\* and the scheduled frames as they were (inactive, none scheduled).
C5_NoFilesNoTransfer ==
    /\ [](\A j \in Jobs :
            (Started(j) /\ ~job[j].image /\ ~job[j].video) =>
                (sent[j] = <<>> /\ doneCalls[j] = 1 /\ errCalls[j] = 0))
    /\ [][\A j \in Jobs :
            (~Started(j) /\ Started(j)' /\ ~job'[j].image /\ ~job'[j].video) =>
                /\ UNCHANGED <<uploadState, uploadProgressRafId, rafQueue, xhr>>
                /\ (\A i \in Jobs, kd \in Kinds : ~InFlight(i, kd)) =>
                       (~uploadState'.active /\ rafQueue' = {})]_vars

C5_Witness ==
    \E j \in Jobs :
        /\ Started(j) /\ ~job[j].image /\ ~job[j].video
        /\ doneCalls[j] = 1 /\ ~uploadState.active /\ rafQueue = {}

\* C6: when both transfers of a job succeed, exactly two requests were sent,
\* the image before the video, and done is invoked exactly once, not before
\* the video transfer has completed.
C6_BothSucceed ==
    \A j \in Jobs :
        /\ (Ended(j, "image", "ok") /\ Ended(j, "video", "ok")) =>
               (sent[j] = <<"image", "video">> /\ doneCalls[j] = 1 /\ errCalls[j] = 0)
        /\ (Ended(j, "image", "ok") /\ xhr[j]["video"].st \in {"inflight", "hold"}) =>
               (sent[j] = <<"image", "video">> /\ doneCalls[j] = 0)

C6_Witness ==
    \E j \in Jobs : Ended(j, "image", "ok") /\ Ended(j, "video", "ok") /\ doneCalls[j] = 1

\* C7: every job resolves: a job with a failing transfer eventually invokes
\* onError, and a job none of whose transfers fails eventually invokes done.
C7_JobResolves ==
    \A j \in Jobs :
        /\ Failed(j) ~> errCalls[j] > 0
        /\ Started(j) ~> (Failed(j) \/ doneCalls[j] > 0)

C7_Witness ==
    \E j \in Jobs : Ended(j, "image", "malformed") /\ errCalls[j] > 0

\* C8: after a progress event with total > 0 and 0 <= loaded <= total,
\* realPercent = min(99, round(loaded / total * 1000) / 10): in tenths, the
\* integer nearest to 1000 * loaded / total (halves up), capped at 990;
\* total = 2,000,000 and loaded = 1,000,000 give 50.0.
C8_RawPercentFormula ==
    \A j \in Jobs, kd \in Kinds :
        LET loaded == xhr[j][kd].lastLoaded
            total == xhr[j][kd].total
            r == uploadState.realPercent
            twice == 2 * (1000 * loaded - r * total)     \* 2 * total * (exact - r)
        IN  (InFlight(j, kd) /\ xhr[j][kd].nprog > 0 /\ total > 0) =>
                /\ r <= 990
                /\ twice >= -total
                /\ r < 990 => twice < total
                /\ (loaded = 1000000 /\ total = 2000000) => r = 500

C8_Witness ==
    \E j \in Jobs, kd \in Kinds :
        /\ InFlight(j, kd) /\ xhr[j][kd].lastLoaded = 1000000 /\ xhr[j][kd].total = 2000000
        /\ uploadState.realPercent = 500

\* C9: while the tracker is active realPercent is at most 99, under every
\* interleaving of begin, progress events, frames, load and error events.
C9_ActiveBelowHundred ==
    uploadState.active => uploadState.realPercent <= 990

C9_Witness ==
    uploadState.active /\ uploadState.realPercent = 990

\* C10: the delivery of a transfer failure (error event, or load with a
\* status outside 200-299) makes the tracker inactive and leaves realPercent
\* and displayedPercent as they were.
C10_FailureKeepsPercents ==
    [][\A j \in Jobs, kd \in Kinds :
         (InFlight(j, kd) /\ TransportFailed(j, kd)') =>
             /\ ~uploadState'.active
             /\ uploadState'.realPercent = uploadState.realPercent
             /\ uploadState'.displayedPercent = uploadState.displayedPercent]_vars

\* ---- the tracker at begin ----------------------------------------------
\* the step is the entry of uploadProductFile for kind kd of call j
Begins(j, kd) ==
    /\ Len(sent'[j]) = Len(sent[j]) + 1
    /\ sent'[j][Len(sent'[j])] = kd

\* C11: whatever the tracker held before, the entry of uploadProductFile
\* leaves realLoaded, realPercent, displayedLoaded and displayedPercent at 0,
\* the speed string at the dash, active true, the totals at the file's size,
\* and indeterminate true exactly when that size is 0.
C11_BeginIsFresh ==
    [][\A j \in Jobs, kd \in Kinds :
          Begins(j, kd) =>
              LET fileSize == xhr'[j][kd].fileSize
              IN  uploadState' =
                      [active |-> TRUE, realLoaded |-> 0, realTotal |-> fileSize,
                       realPercent |-> 0, realSpeedStr |-> Dash,
                       displayedLoaded |-> 0, displayedPercent |-> 0,
                       label |-> kd, total |-> fileSize,
                       indeterminate |-> (fileSize = 0)]]_vars

\* the video has begun after the image's transfer had run to 100 %
C11_Witness ==
    /\ Ended(1, "image", "ok")
    /\ InFlight(1, "video")
    /\ xhr[1]["video"].nprog = 0
    /\ uploadState.displayedPercent = 0
    /\ uploadState.active

\* ---- the progress listener ---------------------------------------------
\* C12: a progress event that arrives 0.05 s or less after the previous one
\* leaves the speed string as it was before the event.
C12_SpeedRetained ==
    [][\A j \in Jobs, kd \in Kinds, loaded \in TrackerLoadeds, total \in TrackerTotals,
          elapsed \in {e \in TrackerElapsed : e <= 50} :
          Progress(j, kd, loaded, total, elapsed) =>
              uploadState'.realSpeedStr = uploadState.realSpeedStr]_vars

\* C13: a progress event without a known total leaves realPercent as it was
\* and the tracker in indeterminate mode, whatever the file's size at begin.
C13_UnknownTotalIndeterminate ==
    [][\A j \in Jobs, kd \in Kinds, loaded \in TrackerLoadeds, elapsed \in TrackerElapsed :
          Progress(j, kd, loaded, 0, elapsed) =>
              /\ uploadState'.realPercent = uploadState.realPercent
              /\ uploadState'.indeterminate]_vars

\* ---- the smoother -------------------------------------------------------
\* the step is one run of animateUploadProgress
FrameStep == frameCount' = frameCount + 1

\* the step is the entry of uploadProductFile for some transfer
AnyBegin == \E j \in Jobs, kd \in Kinds : Begins(j, kd)

\* C14: displayedPercent lies within 0..100 in every reachable state, and
\* from the begin of a transfer on (its progress events reporting loaded
\* values that do not decrease) no smoother step and no load or error
\* handler lowers it.
C14_DisplayedPercentRange ==
    /\ [](uploadState.displayedPercent >= 0 /\ uploadState.displayedPercent <= 100000)
    /\ [][~AnyBegin => uploadState'.displayedPercent >= uploadState.displayedPercent]_vars

\* the smoother has moved displayedPercent part of the way to realPercent
C14_Witness ==
    /\ uploadState.active
    /\ frameCount >= 2
    /\ uploadState.displayedPercent > 0
    /\ uploadState.displayedPercent < uploadState.realPercent * 100

\* C15: from the begin of a transfer on, displayedLoaded <= realLoaded and
\* displayedPercent <= realPercent in every state; a smoother step that
\* closes a gap completely is a snap (for the bytes: realLoaded lies within
\* 100 bytes of realTotal; the percent's snap rule cannot fire while the
\* transfer is active), every other equality comes from begin or from the
\* load handler.
C15_DisplayedBelowRaw ==
    /\ [](/\ uploadState.displayedLoaded <= uploadState.realLoaded * 100
          /\ uploadState.displayedPercent <= uploadState.realPercent * 100)
    /\ [][FrameStep =>
             LET s == uploadState
                 t == uploadState'
             IN  /\ s.displayedPercent < s.realPercent * 100
                        => t.displayedPercent < t.realPercent * 100
                 /\ (s.displayedLoaded < s.realLoaded * 100
                        /\ t.displayedLoaded = t.realLoaded * 100)
                        => s.realLoaded > s.realTotal - 100]_vars

\* the byte snap has fired: the display shows all the bytes sent so far
\* while the percent still lags
C15_Witness ==
    /\ uploadState.active
    /\ uploadState.realLoaded > 0
    /\ uploadState.displayedLoaded = uploadState.realLoaded * 100
    /\ uploadState.displayedPercent > 0
    /\ uploadState.displayedPercent < uploadState.realPercent * 100

\* ---- the formatter ------------------------------------------------------
\* formatBytes has returned from a call with argument n
Formatted(n) == call.fn = "formatBytes" /\ call.returned /\ call.arg[1] = n

\* C16: for 0 < n < 1024^4 formatBytes(n) names the largest unit 1024^i <= n
\* and prints n / 1024^i without decimals in the bytes tier and otherwise to
\* the nearest tenth, a trailing .0 removed; formatBytes(0) is '0 Б',
\* formatBytes(1536) is '1.5 КБ' and formatBytes(1024 * 1024) is '1 МБ'.
C16_FormatBytes ==
    /\ Formatted(0) => call.ret = <<0, -1, 0>>
    /\ Formatted(1536) => call.ret = <<1, 5, 1>>
    /\ Formatted(1024 * 1024) => call.ret = <<1, -1, 2>>
    /\ \A n \in ByteCounts \ {0} :
           Formatted(n) =>
               LET whole == call.ret[1]
                   digit == call.ret[2]
                   i == call.ret[3]
                   unit == Pow(1024, i)
                   u == whole * 10 + (IF digit = -1 THEN 0 ELSE digit) - (n \div unit) * 10
                   twentieths == (20 * (n % unit)) \div unit
               IN  /\ i \in 0..3
                   /\ unit <= n
                   /\ i < 3 => n < unit * 1024
                   /\ i = 0 => call.ret = <<n, -1, 0>>
                   /\ i > 0 => /\ digit \in {-1} \cup (1..9)
                               /\ twentieths \in {2 * u - 1, 2 * u}

\* 1181116006 bytes have been printed as '1.1 ГБ'
C16_Witness == Formatted(1181116006) /\ call.ret = <<1, 1, 3>>

\* shortFileName has returned from a call with a name longer than the limit
Shortened ==
    /\ call.fn = "shortFileName"
    /\ call.returned
    /\ Len(call.arg[1]) > (IF call.arg[2] = 0 THEN 42 ELSE call.arg[2])

\* the extension of a name: its last dot, when that is not the first
\* character and lies within the last 5 characters, and what follows it
ExtOf(name) ==
    LET lastDot == LastIndexOf(name, ".")
    IN  IF lastDot > 0 /\ lastDot >= Len(name) - 5
        THEN SubSeq(name, lastDot + 1, Len(name)) ELSE <<>>

EndsWith(s, suffix) ==
    /\ Len(suffix) <= Len(s)
    /\ SubSeq(s, Len(s) - Len(suffix) + 1, Len(s)) = suffix

Ellipses(s) == Cardinality({i \in 1..Len(s) : s[i] = Ellipsis})

\* C17 as stated: a name within the limit is returned unchanged; a longer one
\* comes back no longer than the limit, with exactly one ellipsis, and ending
\* with its extension whenever the last dot lies within the last 5 characters.
C17_KeepsExtension ==
    call.fn = "shortFileName" /\ call.returned =>
        LET name == call.arg[1]
            m == IF call.arg[2] = 0 THEN 42 ELSE call.arg[2]
        IN  IF Len(name) <= m THEN call.ret = name
            ELSE /\ Len(call.ret) <= m
                 /\ Ellipses(call.ret) = 1
                 /\ EndsWith(call.ret, ExtOf(name))

\* C17, amended: the extension is kept when the limit leaves at least 8
\* characters before it (maxLen - extension length - 1 >= 8), which the
\* default limit of 42 always does.
C17_KeepsExtensionIfRoom ==
    call.fn = "shortFileName" /\ call.returned =>
        LET name == call.arg[1]
            m == IF call.arg[2] = 0 THEN 42 ELSE call.arg[2]
        IN  IF Len(name) <= m THEN call.ret = name
            ELSE /\ Len(call.ret) <= m
                 /\ Ellipses(call.ret) = 1
                 /\ m - Len(ExtOf(name)) - 1 >= 8 => EndsWith(call.ret, ExtOf(name))

\* the name of 60 characters and an extension of 4 has been cut to the
\* default limit, the extension kept
C17_Witness ==
    /\ Shortened
    /\ call.arg = <<NameOf(64, {61}), 0>>
    /\ Len(call.ret) = 42
    /\ EndsWith(call.ret, SubSeq(call.arg[1], 61, 64))

\* C18: when maxLen - extension length - 1 < 8, the result is the first
\* maxLen - 1 characters of the whole name as it was passed in, extension
\* included, followed by one ellipsis.
C18_FallbackCutsWholeName ==
    Shortened =>
        LET name == call.arg[1]
            m == IF call.arg[2] = 0 THEN 42 ELSE call.arg[2]
        IN  m - Len(ExtOf(name)) - 1 < 8
                => call.ret = SubSeq(name, 1, m - 1) \o <<Ellipsis>>

\* ---- a load event with a status outside 200-299 ------------------------
\* the failure path: the onError argument is called once, and nothing of the
\* success path happens (no 400 ms callback is set, nothing is sent, done is
\* not called)
FailurePath(j) ==
    /\ errCalls' = [errCalls EXCEPT ![j] = @ + 1]
    /\ holdTimers' = holdTimers
    /\ sent' = sent
    /\ doneCalls' = doneCalls

\* C19 as stated: a load event with a status outside 200-299 takes the
\* failure path, and its message is the body's error field when the body is
\* JSON with an error field, the body's raw text otherwise.
C19_ErrorFieldOrRawBody ==
    [][\A j \in Jobs, kd \in Kinds, body \in Bodies :
          Load(j, kd, FALSE, body) =>
              /\ FailurePath(j)
              /\ notice' = IF body \in {"json error", "json blank error"}
                           THEN "upload error: error field"
                           ELSE "upload error: body"]_vars

\* C19, amended: the message is the error field when the body is JSON with a
\* non-empty error field; otherwise the body's raw text when there is any;
\* otherwise 'Ошибка ' followed by the status.
C19_ErrorFieldBodyOrStatus ==
    [][\A j \in Jobs, kd \in Kinds, body \in Bodies :
          Load(j, kd, FALSE, body) =>
              /\ FailurePath(j)
              /\ notice' = CASE body = "json error" -> "upload error: error field"
                             [] body = "empty" -> "upload error: status"
                             [] OTHER -> "upload error: body"]_vars

\* an image upload was answered with a failure status and a JSON error
C19_Witness ==
    /\ Ended(1, "image", "status")
    /\ notice = "upload error: error field"
    /\ errCalls[1] = 1
    /\ doneCalls[1] = 0
    /\ sent[1] = <<"image">>

\* ---- who writes which fields -------------------------------------------
RawFields == {"realLoaded", "realTotal", "realPercent", "realSpeedStr"}
DisplayedFields == {"displayedLoaded", "displayedPercent"}

\* the step leaves the given fields of uploadState as they were
Keeps(fields) == \A f \in fields : uploadState'[f] = uploadState[f]

\* the step is the progress listener, xhr.onload or xhr.onerror of a request
ProgressStep(j, kd) == InFlight(j, kd) /\ xhr'[j][kd].nprog = xhr[j][kd].nprog + 1
LoadStep(j, kd) ==
    InFlight(j, kd) /\ (xhr'[j][kd].st = "hold" \/ xhr'[j][kd].outcome = "status")
ErrorStep(j, kd) == InFlight(j, kd) /\ xhr'[j][kd].outcome = "network"

C21_RawNeverBackward ==
    [][~AnyBegin =>
          /\ uploadState'.realLoaded >= uploadState.realLoaded
          /\ uploadState'.realPercent >= uploadState.realPercent]_vars

\* ---- the 1500 ms clear of a finished transfer --------------------------
\* the step runs the showUploadProgress(false) set by the 400 ms callback of
\* the transfer of kind kd of call j
ClearStep(j, kd) ==
    /\ hideTimers # <<>>
    /\ Head(hideTimers) = <<j, kd>>
    /\ hideTimers' = Tail(hideTimers)

\* C22: the clear that belongs to the finished image transfer never runs
\* after the video transfer of the same call has begun, so it never hides
\* the progress display of the video transfer.
C22_ClearBeforeNextBegin ==
    [][\A j \in Jobs :
          ClearStep(j, "image") =>
              /\ \A i \in 1..Len(sent[j]) : sent[j][i] # "video"
              /\ ~InFlight(j, "video")]_vars

\* ---- the smoother's loop -----------------------------------------------
\* C23: while the tracker is inactive (from the load or error event of a
\* transfer to the next begin) no smoother step is pending and
\* uploadProgressRafId is null, and no step other than a load handler changes
\* displayedLoaded or displayedPercent.
C23_InactiveStopsSmoother ==
    /\ [](~uploadState.active => uploadProgressRafId = 0 /\ rafQueue = {})
    /\ [][(~uploadState.active /\ ~AnyBegin
             /\ \A j \in Jobs, kd \in Kinds : ~LoadStep(j, kd))
          => Keeps(DisplayedFields)]_vars

\* the transfer has ended with an error event after the smoother had moved
\* the display part of the way
C23_Witness ==
    /\ Ended(1, "image", "network")
    /\ ~uploadState.active
    /\ frameCount >= 1
    /\ uploadState.displayedPercent > 0
    /\ uploadState.displayedPercent < 99000
    /\ rafQueue = {}

\* C24: after every smoother step either displayedPercent <= 99.9, or
\* realPercent >= 99.5 and displayedPercent equals realPercent; and the width
\* the bar has after a smoother step is never above 99.9 %.
C24_ClampBelowHundred ==
    [][FrameStep =>
          /\ \/ uploadState'.displayedPercent <= 99900
             \/ /\ uploadState'.realPercent >= 995
                /\ uploadState'.displayedPercent = uploadState'.realPercent * 100
          /\ sink'.width <= 999]_vars

\* smoother steps have brought the bar to more than 20 % of a transfer whose
\* raw percent stands at 99
C24_Witness ==
    /\ uploadState.active
    /\ uploadState.realPercent = 990
    /\ frameCount >= 3
    /\ sink.width > 200
    /\ sink.width = Round(uploadState.displayedPercent, 100)

\* ---- indeterminate mode -------------------------------------------------
\* C25: while the tracker is active and indeterminate, a smoother step leaves
\* displayedLoaded and displayedPercent as they were and schedules the next
\* step, and the bar carries the indeterminate presentation from begin until
\* the tracker becomes inactive.
C25_IndeterminateSink ==
    /\ [](uploadState.active /\ uploadState.indeterminate => sink.indeterminate)
    /\ [][(FrameStep /\ uploadState.active /\ uploadState.indeterminate)
          => /\ Keeps(DisplayedFields)
             /\ uploadProgressRafId' # 0
             /\ rafQueue' = {uploadProgressRafId'}]_vars

\* ---- the save control ---------------------------------------------------
\* C27: in every reachable state in which a transfer sent by saveProduct has
\* not yet had its load or error event, the save button is disabled, whatever
\* the outcome of the earlier transfers.
C27_BusyWhileInFlight ==
    \A j \in Jobs, kd \in Kinds : InFlight(j, kd) => busy

\* C28: at most one smoother step is pending at any time: when
\* uploadProgressRafId is null no frame is scheduled, otherwise the frame it
\* names is the only one scheduled.
C28_OnePendingFrame ==
    rafQueue = IF uploadProgressRafId = 0 THEN {} ELSE {uploadProgressRafId}

\* the video's begin has scheduled a frame after the image's frames had run
\* and its load event had cancelled the last of them
C28_Witness ==
    /\ Ended(1, "image", "ok")
    /\ InFlight(1, "video")
    /\ frameCount >= 1
    /\ uploadProgressRafId # 0
    /\ rafQueue = {uploadProgressRafId}

\* ---- the page at rest ---------------------------------------------------
\* call j has had its terminal callback: done or the onError argument
Resolved(j) == doneCalls[j] + errCalls[j] >= 1

\* C29: once the only call made has had its terminal callback and all its
\* timers have fired, the progress display is hidden, the tracker is inactive
\* and the save button is enabled.
C29_QuiescentAfterJob ==
    (nextJob = 1 /\ Resolved(1) /\ holdTimers = <<>> /\ hideTimers = <<>>)
        => (~sink.visible /\ ~uploadState.active /\ ~busy)

\* ---- saveProduct without a transfer ------------------------------------
\* the api call of call j has just failed, or has succeeded without an id
\* for a product that had none
SavedWithoutId(j) == job[j].st = "saving" /\ job'[j].st \in {"failed", "noid"}

\* C30: a click with an invalid title or price makes no request and leaves
\* the button enabled; when the api call fails, or succeeds without an id for
\* a new product, no transfer is sent for that call, whatever files are
\* selected, and the button is enabled again.
C30_NoTransferWithoutProduct ==
    /\ [][\A hasId \in BOOLEAN :
             SaveClick(FALSE, hasId) =>
                 ~busy' /\ nextJob' = nextJob /\ job' = job /\ xhr' = xhr /\ sent' = sent]_vars
    /\ [][\A j \in Jobs : SavedWithoutId(j) => ~busy' /\ xhr' = xhr /\ sent' = sent]_vars
    /\ [](\A j \in Jobs : job[j].st \in {"failed", "noid"} => sent[j] = <<>>)

\* the product was saved without an id while both files were selected
C30_Witness ==
    /\ job[1].st = "noid"
    /\ imageInput # NoFile
    /\ videoInput # NoFile
    /\ ~busy
    /\ sent[1] = <<>>

\* ---- a transfer left behind by a newer one -----------------------------
\* a callback of the transport of (j, kd) runs in this step
TransportStep(j, kd) == ProgressStep(j, kd) \/ LoadStep(j, kd) \/ ErrorStep(j, kd)

\* C26: when a transfer of a later call is in flight, the progress, load and
\* error callbacks of a transfer of an earlier call that is still in flight
\* leave the tracker (active, raw and displayed fields) and the scheduled
\* smoother step as they are.
C26_StaleCallbacksDiscarded ==
    [][\A j1 \in Jobs, j2 \in Jobs, kd1 \in Kinds, kd2 \in Kinds :
          (j1 < j2 /\ InFlight(j2, kd2) /\ TransportStep(j1, kd1))
              => /\ uploadState' = uploadState
                 /\ uploadProgressRafId' = uploadProgressRafId
                 /\ rafQueue' = rafQueue]_vars

====
